---- MODULE Spec2Model ----
(***************************************************************************)
(* LiveFit (bluesky/callbacks/fitting.py): the incremental fit coordinator. *)
(* A document stream (start, event, stop) drives one LiveFit instance; the  *)
(* independent variables may be re-bound and update_fit may be called       *)
(* directly, both being public.  The lmfit model is an opaque capability:   *)
(* a number of free parameters, a set of independent-variable roles and a   *)
(* fit operation, whose result is modelled by the samples it was given.     *)
(*                                                                         *)
(* PeakStats (same file): the peak-statistics engine, run by compute() on   *)
(* the event buffer of its collector when a run stops.  NumPy's floats are  *)
(* modelled as exact rationals extended with +inf, -inf and nan (rounding   *)
(* and the sign of zero are not modelled); np.int is the builtin int.       *)
(***************************************************************************)
EXTENDS Integers, Naturals, Sequences, FiniteSets, TLC

\* ---- bounds of the model ----
MaxN == 2          \* largest number of free parameters of the lmfit model
MaxK == 2          \* largest integer update_every
MaxDocs == 4       \* event documents delivered to the instance in one behaviour
MaxDirect == 1     \* direct update_fit calls that reach model.fit between two resets

\* ---- the fixed configuration of the instance ----
None == <<>>                        \* Python's None; a present value v is <<v>>
NoError == "none"                   \* the operation returned normally
y == "det"                          \* self.y: the dependent-variable field
Fields == {"det", "motor", "temp"}  \* field names an event document may carry
IvFields == {"motor", "temp"}       \* fields an independent variable may be bound to
model_independent_vars == {"x", "t"}  \* self.model.independent_vars
RoleNames == {"x", "t", "z"}        \* role names a caller may try to bind

\* every dict a caller may assign to independent_vars
Bindings == UNION {[K -> IvFields] : K \in SUBSET RoleNames}

VARIABLES
  N,                      \* len(self.model.param_names)
  update_every,           \* self.update_every: None or <<k>>, k an integer >= 1
  independent_vars,       \* self._independent_vars: role -> field
  ydata,                  \* self.ydata
  independent_vars_data,  \* self.independent_vars_data: role -> series
  stale,                  \* self.__stale
  result,                 \* self.result: None or <<the result of model.fit>>
  \* ---- history of the behaviour (not program state) ----
  seq,                    \* number of event documents delivered so far
  runFirst,               \* seq at the last start / accepted binding
  received,               \* ids of the events since then that carry y and every bound field
  fitLog,                 \* the model.fit invocations since then: <<[n, by]>>
  last,                   \* the operation that ran last
  lastArg,                \* its argument: an event's fields, a binding's role names
  raised,                 \* the exception it raised, or NoError
  warned                  \* whether it emitted the insufficient-data warning

\* ---- the PeakStats instance ----
VARIABLES
  edge_count,             \* self._edge_count: None or <<E>>
  compute_derivative,     \* self.compute_derivative
  _events,                \* self._events: the collector's event buffer
  stats,                  \* the attributes named by self._stats_fields
  der,                    \* self.der: None (or not assigned) or <<the derivative Stats>>
  x_data,                 \* self.x_data: None (not assigned yet) or <<array>>
  y_data,                 \* self.y_data: None (not assigned yet) or <<array>>
  \* ---- history of the behaviour (not program state) ----
  pk_docs,                \* number of event documents collected so far
  pk_last,                \* the operation that ran last on the PeakStats
  pk_raised               \* the exception it raised, or NoError

peakVars == <<edge_count, compute_derivative, _events, stats, der, x_data,
              y_data, pk_docs, pk_last, pk_raised>>

liveFitVars == <<N, update_every, independent_vars, ydata, independent_vars_data,
                 stale, result, seq, runFirst, received, fitLog, last, lastArg,
                 raised, warned>>

vars == <<liveFitVars, peakVars>>

\* PeakStats.__init__: the names of the stats fields, each None
_stats_fields == {"min", "max", "com", "cen", "crossings", "fwhm", "lin_bnk"}

\* PeakStats.__init__(x, y, edge_count=ec, compute_derivative=cd)
PeakStatsInit(ec, cd) ==
  /\ edge_count = ec
  /\ compute_derivative = cd
  /\ _events = <<>>
  /\ stats = [f \in _stats_fields |-> None]
  /\ der = None
  /\ x_data = None
  /\ y_data = None
  /\ pk_docs = 0
  /\ pk_last = "init"
  /\ pk_raised = NoError

config == <<N, update_every>>

\* doc['data'][f] of the event document with id e: unique per event and field
Value(e, f) == <<e, f>>

\* self.model.fit(self.ydata, **kwargs): opaque, identified by its inputs
fit(yd, ivd) == [y |-> yd, iv |-> ivd]

\* _reset forgetting self.ydata.clear()
_reset_keeps_ydata(ivd) ==
  [result |-> None, stale |-> FALSE, ydata |-> ydata,
   independent_vars_data |-> [k \in DOMAIN ivd |-> <<>>]]

\* LiveFit._reset
_reset(ivd) ==
  [result |-> None, stale |-> FALSE, ydata |-> <<>>,
   independent_vars_data |-> [k \in DOMAIN ivd |-> <<>>]]

\* update_caches appending to self.ydata only
update_caches_y_only(yd, ivd, yv, idv) ==
  [ydata |-> Append(yd, yv), independent_vars_data |-> ivd]

\* LiveFit.update_caches
update_caches(yd, ivd, yv, idv) ==
  [ydata |-> Append(yd, yv),
   independent_vars_data |-> [k \in DOMAIN ivd |-> Append(ivd[k], idv[k])]]

\* update_fit without the test of the sample count
update_fit_unguarded(yd, ivd, st, res) ==
  [result |-> <<fit(yd, ivd)>>, stale |-> FALSE, invoked |-> TRUE, warned |-> FALSE]

\* update_fit asking for more than N samples
update_fit_needs_more(yd, ivd, st, res) ==
  IF Len(yd) <= N
    THEN [result |-> res, stale |-> st, invoked |-> FALSE, warned |-> TRUE]
    ELSE [result |-> <<fit(yd, ivd)>>, stale |-> FALSE, invoked |-> TRUE, warned |-> FALSE]

\* update_fit clearing the flag although it could not fit
update_fit_short_clears(yd, ivd, st, res) ==
  IF Len(yd) < N
    THEN [result |-> res, stale |-> FALSE, invoked |-> FALSE, warned |-> TRUE]
    ELSE [result |-> <<fit(yd, ivd)>>, stale |-> FALSE, invoked |-> TRUE, warned |-> FALSE]

\* update_fit forgetting to clear the flag after the fit
update_fit_keeps_stale(yd, ivd, st, res) ==
  IF Len(yd) < N
    THEN [result |-> res, stale |-> st, invoked |-> FALSE, warned |-> TRUE]
    ELSE [result |-> <<fit(yd, ivd)>>, stale |-> st, invoked |-> TRUE, warned |-> FALSE]

\* LiveFit.update_fit on the given series; invoked: model.fit was called
update_fit(yd, ivd, st, res) ==
  IF Len(yd) < N
    THEN [result |-> res, stale |-> st, invoked |-> FALSE, warned |-> TRUE]
    ELSE [result |-> <<fit(yd, ivd)>>, stale |-> FALSE, invoked |-> TRUE, warned |-> FALSE]

\* the cadence without the i == N case
event_updates_fit_period_only(i) ==
  /\ update_every # None
  /\ ~(i < N)
  /\ (i - 1) % update_every[1] = 0

\* the cadence taking update_every = None for 1
event_updates_fit_none_as_one(i) ==
  /\ ~(i < N)
  /\ \/ i = N
     \/ update_every = None
     \/ (i - 1) % update_every[1] = 0

\* LiveFit.event, lines 88-95: does the event that made the count i trigger update_fit
event_updates_fit(i) ==
  /\ update_every # None
  /\ ~(i < N)
  /\ (i = N) \/ ((i - 1) % update_every[1] = 0)

\* the ignore test looking for the wrong field
event_ignored_wrong_field(data) == "motor" \notin data

\* LiveFit.event, lines 78-79: the document is ignored
event_ignored(data) == y \notin data

\* the setter accepting any subset of the model's roles
binding_accepted_subset(val) == DOMAIN val \subseteq model_independent_vars

\* the independent_vars setter's test
binding_accepted(val) == DOMAIN val = model_independent_vars

\* the state after __init__(model, y, independent_vars, update_every=...)
Init ==
  /\ N \in 1..MaxN
  /\ update_every \in {None} \cup {<<k>> : k \in 1..MaxK}
  /\ independent_vars \in [model_independent_vars -> IvFields]
  /\ ydata = <<>>
  /\ independent_vars_data = [k \in model_independent_vars |-> <<>>]
  /\ stale = FALSE
  /\ result = None
  /\ seq = 0
  /\ runFirst = 0
  /\ received = <<>>
  /\ fitLog = <<>>
  /\ last = "init"
  /\ lastArg = {}
  /\ raised = NoError
  /\ warned = FALSE
  /\ PeakStatsInit(None, FALSE)

\* LiveFit.start
start ==
  LET r == _reset(independent_vars_data) IN
  /\ result' = r.result
  /\ stale' = r.stale
  /\ ydata' = r.ydata
  /\ independent_vars_data' = r.independent_vars_data
  /\ runFirst' = seq
  /\ received' = <<>>
  /\ fitLog' = <<>>
  /\ last' = "start"
  /\ lastArg' = {}
  /\ raised' = NoError
  /\ warned' = FALSE
  /\ UNCHANGED <<config, independent_vars, seq>>
  /\ UNCHANGED peakVars

\* LiveFit.event on an event document with id seq carrying the fields in data
event(data) ==
  /\ seq < MaxDocs
  /\ seq' = seq + 1
  /\ last' = "event"
  /\ lastArg' = data
  /\ UNCHANGED <<config, independent_vars, runFirst>>
  /\ UNCHANGED peakVars
  /\ IF event_ignored(data)
       THEN \* line 78-79: return
            /\ raised' = NoError
            /\ warned' = FALSE
            /\ UNCHANGED <<ydata, independent_vars_data, stale, result, received, fitLog>>
       ELSE IF \E k \in DOMAIN independent_vars : independent_vars[k] \notin data
       THEN \* line 81: doc['data'][v] raises KeyError
            /\ raised' = "KeyError"
            /\ warned' = FALSE
            /\ UNCHANGED <<ydata, independent_vars_data, stale, result, received, fitLog>>
       ELSE
         LET idv == [k \in DOMAIN independent_vars |-> Value(seq, independent_vars[k])]
             c == update_caches(ydata, independent_vars_data, Value(seq, y), idv)
             i == Len(c.ydata)
             f == update_fit(c.ydata, c.independent_vars_data, TRUE, result)
         IN /\ ydata' = c.ydata
            /\ independent_vars_data' = c.independent_vars_data
            /\ received' = Append(received, seq)
            /\ raised' = NoError
            /\ IF event_updates_fit(i)
                 THEN /\ result' = f.result
                      /\ stale' = f.stale
                      /\ warned' = f.warned
                      /\ fitLog' = IF f.invoked
                                     THEN Append(fitLog, [n |-> i, by |-> "event"])
                                     ELSE fitLog
                 ELSE /\ result' = result
                      /\ stale' = TRUE
                      /\ warned' = FALSE
                      /\ fitLog' = fitLog

\* stop without the final update_fit
stop_without_fit ==
  /\ last' = "stop"
  /\ lastArg' = {}
  /\ raised' = NoError
  /\ warned' = FALSE
  /\ UNCHANGED <<config, independent_vars, ydata, independent_vars_data,
                 seq, runFirst, received, stale, result, fitLog>>
  /\ UNCHANGED peakVars

\* stop calling update_fit whatever the flag says
stop_always_fits ==
  LET f == update_fit(ydata, independent_vars_data, stale, result) IN
  /\ last' = "stop"
  /\ lastArg' = {}
  /\ raised' = NoError
  /\ result' = f.result
  /\ stale' = f.stale
  /\ warned' = f.warned
  /\ fitLog' = IF f.invoked
                 THEN Append(fitLog, [n |-> Len(ydata), by |-> "stop"])
                 ELSE fitLog
  /\ UNCHANGED <<config, independent_vars, ydata, independent_vars_data,
                 seq, runFirst, received>>
  /\ UNCHANGED peakVars

\* LiveFit.stop
stop ==
  LET f == update_fit(ydata, independent_vars_data, stale, result) IN
  /\ last' = "stop"
  /\ lastArg' = {}
  /\ raised' = NoError
  /\ UNCHANGED <<config, independent_vars, ydata, independent_vars_data,
                 seq, runFirst, received>>
  /\ UNCHANGED peakVars
  /\ IF stale
       THEN /\ result' = f.result
            /\ stale' = f.stale
            /\ warned' = f.warned
            /\ fitLog' = IF f.invoked
                           THEN Append(fitLog, [n |-> Len(ydata), by |-> "stop"])
                           ELSE fitLog
       ELSE /\ warned' = FALSE
            /\ UNCHANGED <<result, stale, fitLog>>

\* a direct call of LiveFit.update_fit
call_update_fit ==
  LET f == update_fit(ydata, independent_vars_data, stale, result) IN
  /\ Cardinality({j \in DOMAIN fitLog : fitLog[j].by = "direct"}) < MaxDirect
  /\ last' = "update_fit"
  /\ lastArg' = {}
  /\ raised' = NoError
  /\ result' = f.result
  /\ stale' = f.stale
  /\ warned' = f.warned
  /\ fitLog' = IF f.invoked
                 THEN Append(fitLog, [n |-> Len(ydata), by |-> "direct"])
                 ELSE fitLog
  /\ UNCHANGED <<config, independent_vars, ydata, independent_vars_data,
                 seq, runFirst, received>>
  /\ UNCHANGED peakVars

\* the independent_vars setter: self.independent_vars = val
set_independent_vars(val) ==
  /\ last' = "bind"
  /\ lastArg' = DOMAIN val
  /\ warned' = FALSE
  /\ UNCHANGED <<config, seq>>
  /\ UNCHANGED peakVars
  /\ IF ~binding_accepted(val)
       THEN /\ raised' = "ValueError"
            /\ UNCHANGED <<independent_vars, ydata, independent_vars_data, stale,
                           result, runFirst, received, fitLog>>
       ELSE LET r == _reset([k \in DOMAIN val |-> <<>>]) IN
            /\ raised' = NoError
            /\ independent_vars' = val
            /\ independent_vars_data' = r.independent_vars_data
            /\ result' = r.result
            /\ stale' = r.stale
            /\ ydata' = r.ydata
            /\ runFirst' = seq
            /\ received' = <<>>
            /\ fitLog' = <<>>

Next ==
  \/ start
  \/ \E data \in SUBSET Fields : event(data)
  \/ stop
  \/ call_update_fit
  \/ \E val \in Bindings : set_independent_vars(val)

\* the instance driven by documents only
NextDocs ==
  \/ start
  \/ \E data \in SUBSET Fields : event(data)
  \/ stop

SpecDocs == Init /\ [][NextDocs]_vars

Spec == Init /\ [][Next]_vars

\* ========================================================================
\* PeakStats
\* ========================================================================

\* ---- bounds of the PeakStats model ----
MaxPeakDocs == 3   \* event documents collected by the instance in one behaviour
MaxEdge == 2       \* largest edge_count

pk_x == "motor"    \* self.x: the field of the x variable
pk_y == "det"      \* self.y: the field of the y variable

\* the data of the event documents: both fields, or one of them
PkEvents ==
  {[f \in {pk_x, pk_y} |-> IF f = pk_x THEN a ELSE b] : a \in 0..1, b \in 0..1}
    \cup {[f \in {pk_x} |-> 1], [f \in {pk_y} |-> 1]}

\* the run of the documentation: y = [0,1,4,9,4,1,0] over x = [0..6]
ExampleY == <<0, 1, 4, 9, 4, 1, 0>>
ExampleBuffer ==
  [i \in 1..7 |-> [f \in {pk_x, pk_y} |-> IF f = pk_x THEN i - 1 ELSE ExampleY[i]]]

\* ---- numbers: <<n, d>> is n/d (d > 0, reduced); <<1,0>>, <<-1,0>>, <<0,0>>
\* ---- are +inf, -inf and nan
NaN == <<0, 0>>
Num(i) == <<i, 1>>
IntAbs(i) == IF i < 0 THEN -i ELSE i
Sign(i) == IF i < 0 THEN -1 ELSE IF i = 0 THEN 0 ELSE 1

RECURSIVE GCD(_, _)
GCD(a, b) == IF b = 0 THEN a ELSE GCD(b, a % b)

Norm(n, d) ==
  IF d = 0 THEN <<Sign(n), 0>>
  ELSE LET g == GCD(IntAbs(n), IntAbs(d))
           sg == IF d < 0 THEN -1 ELSE 1
       IN <<(sg * n) \div g, (sg * d) \div g>>

IsNaN(a) == a = NaN
Add(a, b) ==
  IF a[2] = 0 /\ b[2] = 0 THEN (IF a = b THEN a ELSE NaN)
  ELSE Norm(a[1] * b[2] + b[1] * a[2], a[2] * b[2])
Neg(a) == <<-a[1], a[2]>>
Sub(a, b) == Add(a, Neg(b))
Mul(a, b) == Norm(a[1] * b[1], a[2] * b[2])
Inv(b) == IF b[1] < 0 THEN <<-b[2], -b[1]>> ELSE <<b[2], b[1]>>
Div(a, b) == Mul(a, Inv(b))
RAbs(a) == <<IntAbs(a[1]), a[2]>>
\* a > b; False when either is nan
Gt(a, b) ==
  /\ ~IsNaN(a)
  /\ ~IsNaN(b)
  /\ IF a[2] = 0 /\ b[2] = 0 THEN a[1] > b[1]
     ELSE a[1] * b[2] > b[1] * a[2]

\* np.array of Python ints, as numbers
Arr(s) == [i \in 1..Len(s) |-> Num(s[i])] \o <<>>

RECURSIVE Sum(_)
Sum(s) == IF s = <<>> THEN Num(0) ELSE Add(Head(s), Sum(Tail(s)))

\* np.mean: nan for an empty array
Mean(s) == Div(Sum(s), Num(Len(s)))

\* np.argmin / np.argmax (1-based): the first nan, else the first extremum
argmin(s) ==
  IF \E i \in 1..Len(s) : IsNaN(s[i])
    THEN CHOOSE i \in 1..Len(s) : IsNaN(s[i]) /\ \A j \in 1..(i - 1) : ~IsNaN(s[j])
    ELSE CHOOSE i \in 1..Len(s) :
           /\ \A j \in 1..Len(s) : ~Gt(s[i], s[j])
           /\ \A j \in 1..(i - 1) : Gt(s[j], s[i])
argmax(s) ==
  IF \E i \in 1..Len(s) : IsNaN(s[i])
    THEN CHOOSE i \in 1..Len(s) : IsNaN(s[i]) /\ \A j \in 1..(i - 1) : ~IsNaN(s[j])
    ELSE CHOOSE i \in 1..Len(s) :
           /\ \A j \in 1..Len(s) : ~Gt(s[j], s[i])
           /\ \A j \in 1..(i - 1) : Gt(s[i], s[j])

\* x[:e] and x[-e:] for e >= 1
FirstN(s, e) == SubSeq(s, 1, IF e < Len(s) THEN e ELSE Len(s))
LastN(s, e) == SubSeq(s, IF e < Len(s) THEN Len(s) - e + 1 ELSE 1, Len(s))

\* center_of_mass of a 1-D array: the weighted mean index (0-based)
center_of_mass(input) ==
  LET normalizer == Sum(input)
  IN Div(Sum([i \in 1..Len(input) |-> Mul(input[i], Num(i - 1))]), normalizer)

\* np.interp(t, np.arange(len(fp)), fp)
interp(t, fp) ==
  LET n == Len(fp) IN
  IF IsNaN(t) THEN NaN
  ELSE IF ~Gt(t, Num(0)) THEN fp[1]
  ELSE IF ~Gt(Num(n - 1), t) THEN fp[n]
  ELSE LET j == t[1] \div t[2]
       IN Add(fp[j + 1], Mul(Sub(t, Num(j)), Sub(fp[j + 2], fp[j + 1])))

\* _calc_stats, lines 244-251: the line through the means of the two edges
lin_bkg(x, yy, e) ==
  LET left_x == Mean(FirstN(x, e))
      left_y == Mean(FirstN(yy, e))
      right_x == Mean(LastN(x, e))
      right_y == Mean(LastN(yy, e))
      m == Div(Sub(right_y, left_y), Sub(right_x, left_x))
      b == Sub(left_y, Mul(m, left_x))
  IN [m |-> m, b |-> b]

\* _calc_stats, line 259: the indices cr (1-based) where y > mid changes
\* between cr and cr + 1, in increasing order, from k on
RECURSIVE crossing_indices(_, _, _)
crossing_indices(yy, mid, k) ==
  IF k >= Len(yy) THEN <<>>
  ELSE IF Gt(yy[k], mid) # Gt(yy[k + 1], mid)
    THEN <<k>> \o crossing_indices(yy, mid, k + 1)
    ELSE crossing_indices(yy, mid, k + 1)

\* _calc_stats, lines 262-268: the x where the segment at cr crosses mid
crossing_x(x, yy, mid, cr) ==
  LET y0 == Sub(yy[cr], mid)
      y1 == Sub(yy[cr + 1], mid)
      dx == Sub(x[cr + 1], x[cr])
      dy == Sub(y1, y0)
      m == Div(dy, dx)
  IN Add(Div(Neg(y0), m), x[cr])

\* lines 270-275 setting fwhm from a single crossing too
cen_fwhm_fields_one_crossing(cen_list, fields) ==
  IF cen_list = <<>> THEN fields
  ELSE ("fwhm" :> <<RAbs(Sub(cen_list[Len(cen_list)], cen_list[1]))>>)
         @@ ("cen" :> <<Mean(cen_list)>>) @@ ("crossings" :> <<cen_list>>) @@ fields

\* _calc_stats, lines 270-275: cen and crossings from one crossing on, fwhm
\* from two on
cen_fwhm_fields(cen_list, fields) ==
  LET f3 == IF cen_list = <<>> THEN fields
            ELSE ("cen" :> <<Mean(cen_list)>>) @@ ("crossings" :> <<cen_list>>) @@ fields
  IN IF Len(cen_list) >= 2
       THEN ("fwhm" :> <<RAbs(Sub(cen_list[Len(cen_list)], cen_list[1]))>>) @@ f3
       ELSE f3

\* _calc_stats raises ValueError (np.argmin of an empty array, line 255)
_calc_stats_raises(x, yy) == Len(yy) = 0

\* PeakStats._calc_stats on non-empty arrays: the Stats it returns
_calc_stats(x, yy, fields, ec) ==
  LET n == Len(x)
      line == IF ec = None THEN None ELSE <<lin_bkg(x, yy, ec[1])>>
      ys == IF ec = None THEN yy
            ELSE [i \in 1..n |->
                    Sub(yy[i], Add(Mul(line[1].m, x[i]), line[1].b))] \o <<>>
      imin == argmin(ys)
      imax == argmax(ys)
      mid == Div(Add(ys[imax], ys[imin]), Num(2))
      crossings == crossing_indices(ys, mid, 1)
      cen_list == [j \in 1..Len(crossings) |-> crossing_x(x, ys, mid, crossings[j])] \o <<>>
      f1 == IF ec = None THEN fields ELSE ("lin_bkg" :> line) @@ fields
      f2 == ("min" :> <<<<x[imin], ys[imin]>>>>)
              @@ ("max" :> <<<<x[imax], ys[imax]>>>>)
              @@ ("com" :> <<interp(center_of_mass(ys), x)>>)
              @@ f1
  IN cen_fwhm_fields(cen_list, f2)

\* the collection loop putting each usable event in front of the earlier ones
RECURSIVE collect_xy_reversed(_)
collect_xy_reversed(evs) ==
  IF evs = <<>> THEN [x |-> <<>>, y |-> <<>>]
  ELSE LET e == Head(evs)
           r == collect_xy_reversed(Tail(evs))
       IN IF pk_x \in DOMAIN e /\ pk_y \in DOMAIN e
            THEN [x |-> r.x \o <<e[pk_x]>>, y |-> r.y \o <<e[pk_y]>>]
            ELSE r

\* PeakStats.compute, lines 288-300: the x and y of the events that carry both
RECURSIVE collect_xy(_)
collect_xy(evs) ==
  IF evs = <<>> THEN [x |-> <<>>, y |-> <<>>]
  ELSE LET e == Head(evs)
           r == collect_xy(Tail(evs))
       IN IF pk_x \in DOMAIN e /\ pk_y \in DOMAIN e
            THEN [x |-> <<e[pk_x]>> \o r.x, y |-> <<e[pk_y]>> \o r.y]
            ELSE r

\* np.diff
diff(s) == [i \in 1..(Len(s) - 1) |-> Sub(s[i + 1], s[i])] \o <<>>

\* PeakStats.__getitem__
__getitem__(key) ==
  IF key \in _stats_fields
    THEN [raised |-> NoError, value |-> stats[key]]
    ELSE [raised |-> "KeyError", value |-> None]

\* getattr(self, name) for the name of a stats field
getattr(name) ==
  IF name \in DOMAIN stats
    THEN [raised |-> NoError, value |-> stats[name]]
    ELSE [raised |-> "AttributeError", value |-> None]

\* the collector between start and stop: the run's events become the buffer
collect(buf) ==
  /\ \/ pk_docs + Len(buf) <= MaxPeakDocs
     \/ buf = ExampleBuffer /\ pk_docs = 0
  /\ _events' = buf
  /\ pk_docs' = pk_docs + Len(buf)
  /\ pk_last' = "collect"
  /\ pk_raised' = NoError
  /\ UNCHANGED <<edge_count, compute_derivative, stats, der, x_data, y_data>>
  /\ UNCHANGED liveFitVars

\* PeakStats.compute, called by the collector at stop
compute ==
  LET xy == collect_xy(_events)
      x == Arr(xy.x)
      yy == Arr(xy.y)
      cleared == [f \in _stats_fields |-> None]
  IN
  /\ pk_last' = "compute"
  /\ UNCHANGED <<edge_count, compute_derivative, _events, pk_docs>>
  /\ UNCHANGED liveFitVars
  /\ IF Len(x) = 0
       THEN \* lines 285-286 and 302-304
            /\ stats' = cleared
            /\ pk_raised' = NoError
            /\ UNCHANGED <<der, x_data, y_data>>
       ELSE
         LET s == _calc_stats(x, yy, cleared, edge_count)
             x_der == Tail(x)
             y_der == diff(yy)
             der_fields == ("x" :> <<x_der>>) @@ ("y" :> <<y_der>>) @@ cleared
         IN /\ x_data' = <<xy.x>>
            /\ y_data' = <<xy.y>>
            /\ stats' = [f \in _stats_fields |-> s[f]]
            /\ IF ~compute_derivative
                 THEN /\ pk_raised' = NoError
                      /\ der' = der
                 ELSE IF _calc_stats_raises(x_der, y_der)
                 THEN /\ pk_raised' = "ValueError"
                      /\ der' = der
                 ELSE /\ pk_raised' = NoError
                      /\ der' = <<_calc_stats(x_der, y_der, der_fields, edge_count)>>

InitPeak ==
  /\ \E ec \in {None} \cup {<<e>> : e \in 1..MaxEdge} :
       \E cd \in BOOLEAN : PeakStatsInit(ec, cd)
  \* a LiveFit instance that receives no document
  /\ N = 1
  /\ update_every = None
  /\ independent_vars = [k \in model_independent_vars |-> "motor"]
  /\ ydata = <<>>
  /\ independent_vars_data = [k \in model_independent_vars |-> <<>>]
  /\ stale = FALSE
  /\ result = None
  /\ seq = 0
  /\ runFirst = 0
  /\ received = <<>>
  /\ fitLog = <<>>
  /\ last = "init"
  /\ lastArg = {}
  /\ raised = NoError
  /\ warned = FALSE

NextPeak ==
  \/ \E n \in 0..MaxPeakDocs :
       /\ pk_docs + n <= MaxPeakDocs
       /\ \E buf \in [1..n -> PkEvents] : collect(buf)
  \/ collect(ExampleBuffer)
  \/ compute

SpecPeak == InitPeak /\ [][NextPeak]_vars

\* ------------------------------------------------------------------------
\* The properties.  "Run" below is the span since the last reset (start or an
\* accepted binding); received and fitLog are its history.
\* ------------------------------------------------------------------------

\* the document carries every field the coordinator expects
Qualifies(data) ==
  /\ y \in data
  /\ \A k \in DOMAIN independent_vars : independent_vars[k] \in data

\* the sample counts at which an event triggered a fit in this run
EventFitCounts == {fitLog[j].n : j \in {h \in DOMAIN fitLog : fitLog[h].by = "event"}}

\* the number of event-triggered fits of this run
EventFits == Cardinality({j \in DOMAIN fitLog : fitLog[j].by = "event"})

\* the sample count of the last fit of this run, 0 if there was none
LastFitN == IF fitLog = <<>> THEN 0 ELSE fitLog[Len(fitLog)].n

\* the fit over every qualifying event of this run, in arrival order
FitOfReceived ==
  fit([i \in 1..Len(received) |-> Value(received[i], y)],
      [k \in DOMAIN independent_vars |->
         [i \in 1..Len(received) |-> Value(received[i], independent_vars[k])]])

\* C1 (as stated): with update_every = k the events that trigger a fit are
\* exactly those making the sample count N, N+k, N+2k, ..., for every N and k.
C1_FitsEveryKFromN ==
  update_every # None =>
    EventFitCounts =
      {c \in 1..Len(received) : c >= N /\ (c - N) % update_every[1] = 0}

\* C1 (amended): with update_every = k the events that trigger a fit are
\* exactly those making the sample count N, or a count i > N with
\* (i - 1) mod k = 0, each such count triggering one fit.
C1_FitsAtNAndPeriod ==
  update_every # None =>
    /\ EventFitCounts =
         {c \in 1..Len(received) :
            c = N \/ (c > N /\ (c - 1) % update_every[1] = 0)}
    /\ EventFits = Cardinality(EventFitCounts)

\* a run with two event-triggered fits, one of them off the N + j*k grid
C1_Witness ==
  /\ update_every # None
  /\ EventFits >= 2
  /\ \E c \in EventFitCounts : (c - N) % update_every[1] # 0
  /\ \E c \in (N + 1)..Len(received) : c \notin EventFitCounts

\* C2 (as stated): after stop the stored result is the fit over all samples
\* of the run, whatever the events and update_every, short runs included
\* (stated for the runs that have a sample at all).
C2_StopFitsAll ==
  (last = "stop" /\ received # <<>>) => result = <<FitOfReceived>>

\* C2 (amended): after stop the stored result is the fit over all samples of
\* the run when the run has at least N samples, and none when it has fewer.
C2_StopFitsAllIfEnough ==
  last = "stop" =>
    IF Len(received) >= N THEN result = <<FitOfReceived>> ELSE result = None

\* stop made the final fit of a run whose last count was off the cadence
C2_Witness ==
  /\ last = "stop"
  /\ update_every # None
  /\ Len(received) > N
  /\ fitLog # <<>>
  /\ fitLog[Len(fitLog)] = [n |-> Len(received), by |-> "stop"]
  /\ EventFits >= 1

\* C3: with an integer update_every no fit is performed while the run has
\* fewer than N qualifying events, and right after the N-th one is processed
\* exactly one fit has been performed, triggered by that event.
C3_FirstPossibleFit ==
  update_every # None =>
    /\ Len(received) < N => fitLog = <<>>
    /\ (last = "event" /\ Qualifies(lastArg) /\ Len(received) = N) =>
         fitLog = <<[n |-> N, by |-> "event"]>>

\* the N-th event was just processed, N - 1 not being a multiple of update_every
C3_Witness ==
  /\ update_every # None
  /\ N > 1
  /\ (N - 1) % update_every[1] # 0
  /\ last = "event"
  /\ Qualifies(lastArg)
  /\ Len(received) = N
  /\ Len(fitLog) = 1

\* C4: right after start or an accepted binding every series is empty, the
\* result is none and the dirty flag is clear; and the samples a stored result
\* was fitted to all belong to the current run.
C4_ResetState ==
  /\ (last = "start" \/ (last = "bind" /\ raised = NoError)) =>
       /\ ydata = <<>>
       /\ DOMAIN independent_vars_data = DOMAIN independent_vars
       /\ \A k \in DOMAIN independent_vars_data : independent_vars_data[k] = <<>>
       /\ result = None
       /\ stale = FALSE
  /\ result # None =>
       /\ \A i \in DOMAIN result[1].y : result[1].y[i][1] >= runFirst
       /\ \A k \in DOMAIN result[1].iv :
            \A i \in DOMAIN result[1].iv[k] : result[1].iv[k][i][1] >= runFirst

\* start arrived after events had been delivered to the instance
C4_Witness ==
  /\ last = "start"
  /\ runFirst >= 2
  /\ ydata = <<>>
  /\ result = None

\* C5: model.fit is never invoked on fewer than N samples.
C5_NoFitBelowN ==
  /\ \A j \in DOMAIN fitLog : fitLog[j].n >= N
  /\ result # None => Len(result[1].y) >= N

\* stop arrived on a short run with unfitted samples: a warning and no fit
C5_Witness ==
  /\ last = "stop"
  /\ stale
  /\ warned
  /\ Len(ydata) >= 1
  /\ Len(ydata) < N
  /\ fitLog = <<>>

\* C6: all series have the length of ydata, their i-th entries come from the
\* same event, and the events are in arrival order.
C6_SeriesAligned ==
  /\ DOMAIN independent_vars_data = DOMAIN independent_vars
  /\ Len(ydata) = Len(received)
  /\ \A k \in DOMAIN independent_vars_data :
       /\ Len(independent_vars_data[k]) = Len(ydata)
       /\ \A i \in 1..Len(ydata) :
            independent_vars_data[k][i] = Value(ydata[i][1], independent_vars[k])
  /\ \A i \in 1..Len(ydata) : ydata[i] = Value(received[i], y)
  /\ \A i \in 1..Len(ydata) : \A j \in 1..Len(ydata) :
       i < j => ydata[i][1] < ydata[j][1]

\* an event failed after samples had been accumulated
C6_Witness ==
  /\ last = "event"
  /\ raised = "KeyError"
  /\ Len(ydata) >= 2
  /\ \E k1 \in DOMAIN independent_vars : \E k2 \in DOMAIN independent_vars :
       independent_vars[k1] # independent_vars[k2]

\* C7: an event document that omits an expected field (the dependent field
\* or a bound independent field) raises no error and appends nothing.
C7_MissingFieldTolerated ==
  [][(seq' # seq /\ ~Qualifies(lastArg')) =>
       /\ raised' = NoError
       /\ UNCHANGED <<ydata, independent_vars_data>>]_vars

\* C8: an event without the dependent field changes nothing: no series grows,
\* the dirty flag and the result keep their values and no fit is triggered.
C8_NoYNoChange ==
  [][(seq' # seq /\ y \notin lastArg') =>
       /\ raised' = NoError
       /\ UNCHANGED <<ydata, independent_vars_data, stale, result, fitLog,
                      received, independent_vars>>]_vars

\* an event without the dependent field arrived at a count where the cadence fits
C8_Witness ==
  /\ last = "event"
  /\ y \notin lastArg
  /\ IvFields \subseteq lastArg
  /\ update_every # None
  /\ Len(ydata) >= N
  /\ (Len(ydata) = N \/ (Len(ydata) - 1) % update_every[1] = 0)

\* C9: with update_every = None no event triggers a fit, and stop performs a
\* fit exactly when the run has a qualifying event since its last fit and at
\* least N samples; that fit is over all samples.
C9_NeverUntilStop ==
  [][update_every = None =>
       /\ seq' # seq => (fitLog' = fitLog /\ result' = result)
       /\ last' = "stop" =>
            /\ (fitLog' # fitLog) <=> (Len(received) > LastFitN /\ Len(received) >= N)
            /\ (fitLog' # fitLog) =>
                 fitLog' = Append(fitLog, [n |-> Len(received), by |-> "stop"])]_vars

\* a run went past its N-th sample without a fit, and stop made the only one
C9_Witness ==
  /\ update_every = None
  /\ last = "stop"
  /\ Len(received) > N
  /\ fitLog = <<[n |-> Len(received), by |-> "stop"]>>

\* C10: a binding raises ValueError exactly when its role names differ from
\* the model's; a rejected one changes nothing, an accepted one does not raise.
C10_BindingChecked ==
  [][last' = "bind" =>
       /\ raised' \in {NoError, "ValueError"}
       /\ (raised' = "ValueError") <=> (lastArg' # model_independent_vars)
       /\ raised' = "ValueError" =>
            UNCHANGED <<independent_vars, ydata, independent_vars_data,
                        stale, result>>
       /\ raised' = NoError => DOMAIN independent_vars' = lastArg']_vars

\* a binding with a missing and an extra role was rejected in mid-run
C10_Witness ==
  /\ last = "bind"
  /\ raised = "ValueError"
  /\ lastArg = {"x", "z"}
  /\ ydata # <<>>
  /\ result # None
  /\ stale

\* the number of samples the stored result was fitted to, 0 for none
ResultSamples == IF result = None THEN 0 ELSE Len(result[1].y)

\* C18: a fit attempted on fewer than N samples (by stop after a run with at
\* least one sample, or by a direct update_fit) raises nothing, warns, does
\* not invoke model.fit and leaves the result and the dirty flag as they were.
C18_ShortFitIsAdvisory ==
  [][(/\ Len(received) < N
      /\ \/ last' = "update_fit"
         \/ last' = "stop" /\ Len(received) >= 1) =>
       /\ raised' = NoError
       /\ warned'
       /\ UNCHANGED <<result, stale, fitLog, ydata, independent_vars_data>>]_vars

\* a direct update_fit found unfitted samples, fewer than N
C18_Witness ==
  /\ last = "update_fit"
  /\ warned
  /\ stale
  /\ result = None
  /\ Len(ydata) >= 1
  /\ Len(ydata) < N

\* C19: the dirty flag is set exactly when the number of accumulated samples
\* differs from the number of samples the stored result was fitted to.
C19_StaleIffUnfitted == stale <=> (Len(ydata) # ResultSamples)

\* samples were appended after a fit of this run
C19_Witness ==
  /\ stale
  /\ result # None
  /\ Len(ydata) > ResultSamples
  /\ ResultSamples >= N

\* C20: driven by documents, every step invokes model.fit at most once, and
\* every invocation of a run is on more samples than the one before it: stop
\* fits only what the last event left unfitted, and a repeated stop nothing.
C20_NoFitRepeated ==
  [][\/ fitLog' = fitLog
     \/ fitLog' = <<>>
     \/ /\ Len(fitLog') = Len(fitLog) + 1
        /\ SubSeq(fitLog', 1, Len(fitLog)) = fitLog
        /\ fitLog'[Len(fitLog')].n = Len(received')
        /\ fitLog'[Len(fitLog')].n > LastFitN]_vars

\* stop arrived after a run whose last event had triggered the fit: no second fit
C20_Witness ==
  /\ last = "stop"
  /\ ~stale
  /\ ~warned
  /\ fitLog # <<>>
  /\ fitLog[Len(fitLog)] = [n |-> Len(received), by |-> "event"]
  /\ Len(fitLog) >= 2

\* ------------------------------------------------------------------------
\* PeakStats: the properties
\* ------------------------------------------------------------------------

\* the seven stats fields the documentation names
StatsFieldNames == {"min", "max", "com", "cen", "crossings", "fwhm", "lin_bkg"}

\* names that are no stats field
OtherNames == {"lin_bnk", "der", "x_data", "sigma"}

\* the events of the buffer that carry both the x and the y field, in order
Usable == SelectSeq(_events, LAMBDA e : pk_x \in DOMAIN e /\ pk_y \in DOMAIN e)
UsableX == [i \in 1..Len(Usable) |-> Usable[i][pk_x]]
UsableY == [i \in 1..Len(Usable) |-> Usable[i][pk_y]]

\* C11 (as stated): in every state each of min, max, com, cen, crossings,
\* fwhm and lin_bkg is readable as an attribute and by key lookup without an
\* error, both giving the same value, and key lookup of any other name raises
\* a lookup error.
C11_SevenFieldsReadable ==
  /\ \A f \in StatsFieldNames :
       /\ getattr(f).raised = NoError
       /\ __getitem__(f).raised = NoError
       /\ __getitem__(f).value = getattr(f).value
  /\ \A k \in OtherNames : __getitem__(k).raised = "KeyError"

\* C12 (as stated): after compute on a buffer with usable events the exposed
\* lin_bkg field holds the slope and intercept of the subtracted line when an
\* edge count is configured, and is unset when none is.
C12_LinBkgExposed ==
  (pk_last = "compute" /\ Usable # <<>>) =>
    getattr("lin_bkg") =
      [raised |-> NoError,
       value |-> IF edge_count = None THEN None
                 ELSE <<lin_bkg(Arr(UsableX), Arr(UsableY), edge_count[1])>>]

\* C13 (as stated): compute on a buffer with no usable events raises no error
\* and leaves each of min, max, com, cen, crossings, fwhm and lin_bkg unset,
\* whatever an earlier run had produced.
C13_EmptyRunAllUnset ==
  (pk_last = "compute" /\ Usable = <<>>) =>
    /\ pk_raised = NoError
    /\ \A f \in StatsFieldNames :
         getattr(f) = [raised |-> NoError, value |-> None]

\* C14: compute uses exactly the buffered events that carry both x and y, in
\* arrival order and pairing x and y of one event: its arrays are those of
\* the usable events (equal lengths, the number of usable events), the stats
\* are those of these arrays, an event lacking a field raises no KeyError,
\* and the buffer is left as it was.  With no usable event nothing is
\* computed: every field is None and the arrays of an earlier run stay.
C14_UsesPairedEvents ==
  [][pk_last' = "compute" =>
       /\ _events' = _events
       /\ pk_raised' # "KeyError"
       /\ IF Usable = <<>>
            THEN /\ stats' = [f \in _stats_fields |-> None]
                 /\ x_data' = x_data
                 /\ y_data' = y_data
            ELSE /\ x_data' = <<UsableX>>
                 /\ y_data' = <<UsableY>>
                 /\ Len(x_data'[1]) = Len(Usable)
                 /\ Len(y_data'[1]) = Len(Usable)
                 /\ stats'["min"] # None
                 /\ stats'["min"][1][1] \in {Num(UsableX[i]) : i \in 1..Len(Usable)}
     ]_vars

\* compute ran on a buffer of three events whose middle one lacks y, the two
\* usable ones differing in x and in y
C14_Witness ==
  /\ pk_last = "compute"
  /\ Len(_events) = 3
  /\ pk_y \notin DOMAIN _events[2]
  /\ Len(Usable) = 2
  /\ x_data = <<UsableX>>
  /\ y_data = <<UsableY>>
  /\ UsableX[1] # UsableX[2]
  /\ UsableY[1] # UsableY[2]
  /\ UsableX # UsableY

\* the y a stats pass works on: yy, less the edge line when one is configured
StatsY(x, yy) ==
  IF edge_count = None THEN yy
  ELSE LET line == lin_bkg(x, yy, edge_count[1])
       IN [i \in 1..Len(yy) |-> Sub(yy[i], Add(Mul(line.m, x[i]), line.b))]

\* (max(y) + min(y)) / 2
HalfMax(ys) == Div(Add(ys[argmax(ys)], ys[argmin(ys)]), Num(2))

\* the indices i where y > half-max changes between i and i + 1
Changes(ys) ==
  {i \in 1..(Len(ys) - 1) : Gt(ys[i], HalfMax(ys)) # Gt(ys[i + 1], HalfMax(ys))}

\* the j-th smallest member of a set of indices
Nth(S, j) == CHOOSE i \in S : Cardinality({k \in S : k < i}) = j - 1

\* the rule of C15 for the stats record s computed from x and yy
CrossingRule(s, x, yy) ==
  LET ys == StatsY(x, yy)
      c == Cardinality(Changes(ys))
  IN /\ c = 0 => s["cen"] = None /\ s["crossings"] = None /\ s["fwhm"] = None
     /\ c >= 1 =>
          /\ s["crossings"] # None
          /\ Len(s["crossings"][1]) = c
          /\ \A j \in 1..c :
               s["crossings"][1][j] = crossing_x(x, ys, HalfMax(ys), Nth(Changes(ys), j))
          /\ s["cen"] = <<Mean(s["crossings"][1])>>
     /\ c = 1 => s["fwhm"] = None
     /\ c >= 2 =>
          s["fwhm"] = <<RAbs(Sub(s["crossings"][1][c], s["crossings"][1][1]))>>

\* C15: in a stats result (the exposed fields, and the derivative record) the
\* number c of index pairs where y > (max(y)+min(y))/2 changes decides cen,
\* crossings and fwhm: none set for c = 0; cen and a one-entry crossings but
\* no fwhm for c = 1; c crossings in index order, their mean as cen and
\* |last - first| as fwhm for c >= 2.  For y = [0,1,4,9,4,1,0] over x = [0..6]
\* c = 2, the crossings are 2.1 and 3.9, cen is 3 and fwhm is 1.8.
C15_CrossingsDecideFields ==
  /\ stats["min"] # None =>
       CrossingRule(stats, Arr(x_data[1]), Arr(y_data[1]))
  /\ der # None => CrossingRule(der[1], der[1]["x"][1], der[1]["y"][1])
  /\ (_events = ExampleBuffer /\ pk_last = "compute") =>
       /\ Cardinality(Changes(StatsY(Arr(UsableX), Arr(UsableY)))) = 2
       /\ stats["crossings"] = <<<< <<21, 10>>, <<39, 10>> >>>>
       /\ stats["cen"] = <<Num(3)>>
       /\ stats["fwhm"] = << <<9, 5>> >>

\* the stats of the documented run were computed, with two crossings
C15_Witness ==
  /\ _events = ExampleBuffer
  /\ pk_last = "compute"
  /\ stats["crossings"] # None
  /\ Len(stats["crossings"][1]) = 2
  /\ stats["fwhm"] # None

\* every stats field of the derivative record is unset
DerFieldsUnset ==
  der = None \/ \A f \in StatsFieldNames \cap DOMAIN der[1] : der[1][f] = None

\* C16 (as stated): with the derivative pass configured compute raises
\* nothing for any buffer; with exactly one usable event the derivative
\* arrays are empty, nothing is computed and every field of the derivative
\* stats is unset.
C16_DerivativeNeverRaises ==
  (pk_last = "compute" /\ compute_derivative) =>
    /\ pk_raised = NoError
    /\ Len(Usable) = 1 => DerFieldsUnset

\* C17 (as stated): after a compute that returned normally with the
\* derivative pass configured, the derivative record is that of this run's
\* data (x[1:] and diff(y) of the usable events), and it is unset when the
\* buffer has no usable event, whatever an earlier run had produced.
C17_DerivativeFresh ==
  (pk_last = "compute" /\ compute_derivative /\ pk_raised = NoError) =>
    IF Usable = <<>>
      THEN der = None
      ELSE /\ der # None
           /\ der[1]["x"] = <<Tail(Arr(UsableX))>>
           /\ der[1]["y"] = <<diff(Arr(UsableY))>>

====
